---- MODULE Spec2Model ----
(***************************************************************************)
(* FRAKTAG unified runner (packages/engine/scripts/mlx_runner.py).         *)
(*                                                                         *)
(* One asyncio event loop serves chat-completion, embedding and            *)
(* models-listing requests.  A single asyncio.Lock (gpu_lock) guards the   *)
(* accelerator; EngineState holds the hot-swappable chat model.            *)
(*                                                                         *)
(* The handlers are coroutines: a handler runs on the loop until it        *)
(* suspends (waiting for gpu_lock, or an async generator suspended at a    *)
(* yield while the response is sent).  load(), stream_generate() and       *)
(* encode() are synchronous calls, so the loop runs nothing else while     *)
(* they execute.  `running` is the request whose code occupies the loop.   *)
(***************************************************************************)
EXTENDS Naturals, Sequences, FiniteSets

\* ------------------------------------------------------------------ bounds
NumTasks == 3
MaxChunks == 3
MaxLen == 3

Tasks == 1..NumTasks
NoTask == 0

\* Model identities a request may name
Models == {"A", "B"}

None == "None"          \* Python None
Absent == "absent"      \* attribute removed by `del`
Sentinel == "loading"
NomicEmbed == "nomic-ai/nomic-embed-text-v1.5"
DoneMarker ==
    [id |-> <<"-", 0>>, model |-> "-", by |-> "-", text |-> "[DONE]", finish |-> "-"]

VARIABLES
    chat_model,       \* state.chat_model: None, Absent or the identity of the weights
    tokenizer,        \* state.tokenizer: None, Absent or the identity
    chat_model_path,  \* state.chat_model_path: None or an identity
    embed_model,      \* state.embed_model: the SentenceTransformer instance
    locked,           \* gpu_lock._locked
    waiters,          \* gpu_lock._waiters, oldest first (one future per waiting request)
    woken,            \* waiters whose future has its result set by release()
    holder,           \* the request that last acquired gpu_lock and has not released it
    running,          \* the request whose code occupies the event loop, or NoTask
    pc,               \* position of every request
    req,              \* the request body: kind, model, stream
    prompt,           \* identity of the tokenizer that rendered the request's prompt
    gen,              \* the model object handed to stream_generate for the request
    out,              \* deltas/chunks produced for the request, in order
    result,           \* the response envelope returned to the client
    loads,            \* number of load(model_path) calls per identity
    ever_loaded       \* some load(model_path) call has returned a model

registry == <<chat_model, tokenizer, chat_model_path>>
\* Every attribute of the EngineState instance `state`
engine == <<chat_model, tokenizer, chat_model_path, embed_model>>
lock == <<locked, waiters, woken, holder>>
vars == <<chat_model, tokenizer, chat_model_path, embed_model, locked, waiters, woken, holder,
          running, pc, req, prompt, gen, out, result, loads, ever_loaded>>

NoReq == [kind |-> "none", model |-> None, stream |-> FALSE, input |-> None]
NoResult == [status |-> "none", model |-> None, content |-> "", finish |-> None,
             data |-> <<>>]

\* EngineState.__init__
Init ==
    /\ chat_model = None
    /\ tokenizer = None
    /\ chat_model_path = None
    /\ embed_model = NomicEmbed
    /\ locked = FALSE
    /\ waiters = <<>>
    /\ woken = {}
    /\ holder = NoTask
    /\ running = NoTask
    /\ pc = [t \in Tasks |-> "idle"]
    /\ req = [t \in Tasks |-> NoReq]
    /\ prompt = [t \in Tasks |-> None]
    /\ gen = [t \in Tasks |-> None]
    /\ out = [t \in Tasks |-> <<>>]
    /\ result = [t \in Tasks |-> NoResult]
    /\ loads = [m \in Models |-> 0]
    /\ ever_loaded = FALSE

\* ------------------------------------------------------------ asyncio.Lock
RemoveWaiter(ws, t) == SelectSeq(ws, LAMBDA u : u # t)

\* Lock.acquire fast path: unlocked and no waiter queued (a cancelled waiter
\* leaves the queue in CancelWaiting, so none of the queued futures is cancelled)
CanAcquireNow == ~locked /\ waiters = <<>>

\* Variant of WakeUpFirst: release() wakes nobody
WakeUpNone(ws, wk) == wk

\* Lock._wake_up_first on waiter list ws: set the result of the first future
WakeUpFirst(ws, wk) == IF ws = <<>> THEN wk ELSE wk \cup {Head(ws)}

\* Lock.release (the exit of `async with gpu_lock`)
Release ==
    /\ locked' = FALSE
    /\ holder' = NoTask
    /\ woken' = WakeUpFirst(waiters, woken)
    /\ UNCHANGED waiters

\* Lock.acquire by request t when the fast path applies
AcquireNow(t) ==
    /\ locked' = TRUE
    /\ holder' = t
    /\ UNCHANGED <<waiters, woken>>

\* Lock.acquire slow path: append a future and suspend
Enqueue(t) ==
    /\ waiters' = Append(waiters, t)
    /\ UNCHANGED <<locked, woken, holder>>

\* The woken waiter resumes inside acquire: removes its future, takes the lock
AcquireWoken(t) ==
    /\ waiters' = RemoveWaiter(waiters, t)
    /\ woken' = woken \ {t}
    /\ locked' = TRUE
    /\ holder' = t

\* ------------------------------------------------- EngineState.load_chat_model
\* The effect of load_chat_model(m) on the registry, where `ok` tells whether
\* load(m) succeeds if it is called: the new attribute values, whether the
\* method raised, and whether load(m) was called.
load_chat_model(m, ok) ==
    IF chat_model_path = m
    THEN [cm |-> chat_model, tok |-> tokenizer, path |-> chat_model_path,
          raised |-> FALSE, called |-> FALSE]
    ELSE IF chat_model = Absent
    THEN \* `if self.chat_model:` on a deleted attribute: AttributeError
         [cm |-> chat_model, tok |-> tokenizer, path |-> chat_model_path,
          raised |-> TRUE, called |-> FALSE]
    ELSE LET dropped == chat_model # None      \* `if self.chat_model:` del, del
             cm1 == IF dropped THEN Absent ELSE chat_model
             tok1 == IF dropped THEN Absent ELSE tokenizer
         IN IF ok
            THEN [cm |-> m, tok |-> m, path |-> m, raised |-> FALSE, called |-> TRUE]
            ELSE \* load(model_path) raises: nothing is assigned
                 [cm |-> cm1, tok |-> tok1, path |-> chat_model_path,
                  raised |-> TRUE, called |-> TRUE]

\* The text of the i-th delta the generation collaborator yields
DeltaText(i) == IF i = 1 THEN "Hello" ELSE IF i = 2 THEN " there" ELSE "."

Texts(seq) == [i \in 1..Len(seq) |-> seq[i].text]

\* Variant of ResponseText: each delta is put in front of the text so far
RECURSIVE ResponseTextPrepending(_, _)
ResponseTextPrepending(texts, n) ==
    IF n = 0 THEN "" ELSE texts[n] \o ResponseTextPrepending(texts, n - 1)

\* `response_text = ""` then `response_text += response.text` for the first n
\* deltas
RECURSIVE ResponseText(_, _)
ResponseText(texts, n) ==
    IF n = 0 THEN "" ELSE ResponseText(texts, n - 1) \o texts[n]

Failure(t, why) == [status |-> why, model |-> req[t].model, content |-> "", finish |-> None,
                    data |-> <<>>]

\* Requests are named in arrival order.
NextToArrive(t) == pc[t] = "idle" /\ \A u \in Tasks : u < t => pc[u] # "idle"

\* --------------------------------------------------------- chat_completions
\* POST /v1/chat/completions arrives: `async with gpu_lock:`
ChatArrive(t, m, s) ==
    /\ NextToArrive(t)
    /\ running = NoTask
    /\ req' = [req EXCEPT ![t] = [kind |-> "chat", model |-> m, stream |-> s,
                                      input |-> None]]
    /\ IF CanAcquireNow
       THEN AcquireNow(t) /\ pc' = [pc EXCEPT ![t] = "setup"] /\ running' = t
       ELSE Enqueue(t) /\ pc' = [pc EXCEPT ![t] = "wait_setup"] /\ UNCHANGED running
    /\ UNCHANGED <<engine, prompt, gen, out, result, loads, ever_loaded>>

\* The waiting handler is granted the lock
ChatResume(t) ==
    /\ pc[t] = "wait_setup"
    /\ t \in woken
    /\ running = NoTask
    /\ AcquireWoken(t)
    /\ pc' = [pc EXCEPT ![t] = "setup"]
    /\ running' = t
    /\ UNCHANGED <<engine, req, prompt, gen, out, result, loads, ever_loaded>>

\* state.load_chat_model(req.model); an exception leaves `async with`
ChatLoad(t) ==
    /\ pc[t] = "setup"
    /\ running = t
    /\ \E ok \in BOOLEAN : LET r == load_chat_model(req[t].model, ok) IN
        /\ chat_model' = r.cm
        /\ tokenizer' = r.tok
        /\ chat_model_path' = r.path
        /\ loads' = IF r.called THEN [loads EXCEPT ![req[t].model] = @ + 1] ELSE loads
        /\ ever_loaded' = (ever_loaded \/ (r.called /\ ~r.raised))
        /\ IF r.raised
           THEN /\ Release
                /\ pc' = [pc EXCEPT ![t] = "failed"]
                /\ result' = [result EXCEPT ![t] =
                                Failure(t, IF r.called THEN "load_error" ELSE "attr_error")]
           ELSE /\ pc' = [pc EXCEPT ![t] = "prompt"]
                /\ UNCHANGED <<lock, result>>
    /\ UNCHANGED <<embed_model, running, req, prompt, gen, out>>

\* Variant of ChatPrompt: the lock is taken by hand in the handler and kept
\* across the return of the StreamingResponse
ChatPromptKeepingLock(t) ==
    /\ pc[t] = "prompt"
    /\ running = t
    /\ tokenizer # Absent
    /\ prompt' = [prompt EXCEPT ![t] = tokenizer]
    /\ IF req[t].stream
       THEN /\ pc' = [pc EXCEPT ![t] = "resp"]
            /\ running' = NoTask
            /\ UNCHANGED gen
       ELSE /\ gen' = [gen EXCEPT ![t] = chat_model]
            /\ pc' = [pc EXCEPT ![t] = "gen"]
            /\ UNCHANGED running
    /\ UNCHANGED <<engine, lock, req, out, result, loads, ever_loaded>>

\* Prompt rendering, make_sampler, then either the StreamingResponse is returned
\* (leaving `async with`) or stream_generate is called for the non-streaming loop.
ChatPrompt(t) ==
    /\ pc[t] = "prompt"
    /\ running = t
    /\ IF tokenizer = Absent
       THEN \* state.tokenizer was deleted: AttributeError
            /\ Release
            /\ pc' = [pc EXCEPT ![t] = "failed"]
            /\ result' = [result EXCEPT ![t] = Failure(t, "attr_error")]
            /\ UNCHANGED <<prompt, gen, running>>
       ELSE /\ prompt' = [prompt EXCEPT ![t] = tokenizer]
            /\ IF req[t].stream
               THEN /\ Release
                    /\ pc' = [pc EXCEPT ![t] = "resp"]
                    /\ running' = NoTask
                    /\ UNCHANGED gen
               ELSE /\ gen' = [gen EXCEPT ![t] = chat_model]
                    /\ pc' = [pc EXCEPT ![t] = "gen"]
                    /\ UNCHANGED <<lock, running>>
            /\ UNCHANGED result
    /\ UNCHANGED <<engine, req, out, loads, ever_loaded>>

\* One iteration of the non-streaming loop: response_text += response.text
GenDelta(t) ==
    /\ pc[t] = "gen"
    /\ running = t
    /\ Len(out[t]) < MaxChunks
    /\ out' = [out EXCEPT ![t] = Append(@, [model |-> None, by |-> gen[t],
                                            text |-> DeltaText(Len(@) + 1)])]
    /\ UNCHANGED <<engine, lock, running, pc, req, prompt, gen, result, loads, ever_loaded>>

\* The generator is exhausted: the envelope is returned, leaving `async with`
GenEnd(t) ==
    /\ pc[t] = "gen"
    /\ running = t
    /\ result' = [result EXCEPT ![t] = [status |-> "ok", model |-> req[t].model,
                                        content |-> ResponseText(Texts(out[t]), Len(out[t])),
                                        finish |-> "stop",
                                        data |-> <<>>]]
    /\ Release
    /\ pc' = [pc EXCEPT ![t] = "done"]
    /\ UNCHANGED <<engine, running, req, prompt, gen, out, loads, ever_loaded>>

\* stream_generate raises inside the non-streaming loop
GenFail(t) ==
    /\ pc[t] = "gen"
    /\ running = t
    /\ result' = [result EXCEPT ![t] = Failure(t, "gen_error")]
    /\ out' = [out EXCEPT ![t] = <<>>]      \* response_text is lost with the frame
    /\ Release
    /\ pc' = [pc EXCEPT ![t] = "failed"]
    /\ UNCHANGED <<engine, running, req, prompt, gen, loads, ever_loaded>>

\* ----------------------------------------------------- generate_stream_locked
\* The value of the generator's local `response_id`, assigned once before the
\* loop: one value per generator
response_id(t) == <<"chatcmpl", t>>

\* The chunk built in the i-th iteration of the stream loop
Chunk(t, i) ==
    [id |-> response_id(t), model |-> chat_model_path, by |-> gen[t],
     text |-> DeltaText(i), finish |-> None]

\* Variant of StreamStart: the generator runs without `async with gpu_lock`
StreamStartUnlocked(t) ==
    /\ pc[t] = "resp"
    /\ running = NoTask
    /\ pc' = [pc EXCEPT ![t] = "stream0"]
    /\ running' = t
    /\ UNCHANGED <<engine, lock, req, prompt, gen, out, result, loads, ever_loaded>>

\* The server starts iterating the StreamingResponse body: the first __anext__
\* runs the generator to `async with gpu_lock:`
StreamStart(t) ==
    /\ pc[t] = "resp"
    /\ running = NoTask
    /\ IF CanAcquireNow
       THEN AcquireNow(t) /\ pc' = [pc EXCEPT ![t] = "stream0"] /\ running' = t
       ELSE Enqueue(t) /\ pc' = [pc EXCEPT ![t] = "wait_stream"] /\ UNCHANGED running
    /\ UNCHANGED <<engine, req, prompt, gen, out, result, loads, ever_loaded>>

\* The waiting generator is granted the lock
StreamResume(t) ==
    /\ pc[t] = "wait_stream"
    /\ t \in woken
    /\ running = NoTask
    /\ AcquireWoken(t)
    /\ pc' = [pc EXCEPT ![t] = "stream0"]
    /\ running' = t
    /\ UNCHANGED <<engine, req, prompt, gen, out, result, loads, ever_loaded>>

\* response_id = ...; stream_generate(state.chat_model, state.tokenizer, prompt, ...)
StreamCall(t) ==
    /\ pc[t] = "stream0"
    /\ running = t
    /\ IF chat_model = Absent
       THEN \* state.chat_model was deleted: AttributeError leaves `async with`
            /\ Release
            /\ pc' = [pc EXCEPT ![t] = "failed"]
            /\ result' = [result EXCEPT ![t] = Failure(t, "attr_error")]
            /\ UNCHANGED gen
       ELSE /\ gen' = [gen EXCEPT ![t] = chat_model]
            /\ pc' = [pc EXCEPT ![t] = "stream"]
            /\ UNCHANGED <<lock, result>>
    /\ UNCHANGED <<engine, running, req, prompt, out, loads, ever_loaded>>

\* Variant of StreamDelta: the lock is given up while the chunk is being sent
StreamDeltaReleasing(t) ==
    /\ pc[t] = "stream"
    /\ running = t
    /\ Len(out[t]) < MaxChunks
    /\ out' = [out EXCEPT ![t] = Append(@, Chunk(t, Len(@) + 1))]
    /\ pc' = [pc EXCEPT ![t] = "yielded"]
    /\ running' = NoTask
    /\ Release
    /\ UNCHANGED <<engine, req, prompt, gen, result, loads, ever_loaded>>

\* One iteration of the stream loop: build the chunk and yield it
StreamDelta(t) ==
    /\ pc[t] = "stream"
    /\ running = t
    /\ Len(out[t]) < MaxChunks
    /\ out' = [out EXCEPT ![t] = Append(@, Chunk(t, Len(@) + 1))]
    /\ pc' = [pc EXCEPT ![t] = "yielded"]
    /\ running' = NoTask
    /\ UNCHANGED <<engine, lock, req, prompt, gen, result, loads, ever_loaded>>

\* Variant of StreamDone: the loop goes on after the terminal marker
StreamDoneContinuing(t) ==
    /\ pc[t] = "stream"
    /\ running = t
    /\ out' = [out EXCEPT ![t] = Append(@, DoneMarker)]
    /\ pc' = [pc EXCEPT ![t] = "yielded"]
    /\ running' = NoTask
    /\ UNCHANGED <<engine, lock, req, prompt, gen, result, loads, ever_loaded>>

\* stream_generate is exhausted: yield "data: [DONE]"
StreamDone(t) ==
    /\ pc[t] = "stream"
    /\ running = t
    /\ out' = [out EXCEPT ![t] = Append(@, DoneMarker)]
    /\ pc' = [pc EXCEPT ![t] = "yielded_done"]
    /\ running' = NoTask
    /\ UNCHANGED <<engine, lock, req, prompt, gen, result, loads, ever_loaded>>

\* Variant of StreamFail: acquire/release by hand, the release skipped on error
StreamFailNoRelease(t) ==
    /\ pc[t] = "stream"
    /\ running = t
    /\ result' = [result EXCEPT ![t] = Failure(t, "gen_error")]
    /\ pc' = [pc EXCEPT ![t] = "failed"]
    /\ UNCHANGED <<engine, lock, running, req, prompt, gen, out, loads, ever_loaded>>

\* stream_generate raises mid-stream: the exception leaves `async with`
StreamFail(t) ==
    /\ pc[t] = "stream"
    /\ running = t
    /\ result' = [result EXCEPT ![t] = Failure(t, "gen_error")]
    /\ Release
    /\ pc' = [pc EXCEPT ![t] = "failed"]
    /\ UNCHANGED <<engine, running, req, prompt, gen, out, loads, ever_loaded>>

\* The chunk was sent; the consumer asks for the next one
StreamNext(t) ==
    /\ pc[t] = "yielded"
    /\ running = NoTask
    /\ pc' = [pc EXCEPT ![t] = "stream"]
    /\ running' = t
    /\ UNCHANGED <<engine, lock, req, prompt, gen, out, result, loads, ever_loaded>>

\* After [DONE] the generator returns, leaving `async with`
StreamFinish(t) ==
    /\ pc[t] = "yielded_done"
    /\ running = NoTask
    /\ Release
    /\ pc' = [pc EXCEPT ![t] = "done"]
    /\ running' = t
    /\ UNCHANGED <<engine, req, prompt, gen, out, result, loads, ever_loaded>>

\* The request's objects are dropped
Dropped(t) ==
    /\ pc' = [pc EXCEPT ![t] = "gone"]
    /\ req' = [req EXCEPT ![t] = NoReq]
    /\ prompt' = [prompt EXCEPT ![t] = None]
    /\ gen' = [gen EXCEPT ![t] = None]
    /\ out' = [out EXCEPT ![t] = <<>>]
    /\ result' = [result EXCEPT ![t] = NoResult]

\* The consumer disconnects before the generator was started: the generator
\* object is dropped unstarted
CancelBeforeStart(t) ==
    /\ pc[t] = "resp"
    /\ running = NoTask
    /\ Dropped(t)
    /\ UNCHANGED <<engine, lock, running, loads, ever_loaded>>

\* The consumer disconnects while the generator waits in Lock.acquire:
\* CancelledError reaches the waiter, which removes its future and, if the lock
\* is free, passes the wake-up on
CancelWaiting(t) ==
    /\ pc[t] = "wait_stream"
    /\ running = NoTask
    /\ waiters' = RemoveWaiter(waiters, t)
    /\ woken' = IF locked THEN woken \ {t}
                ELSE WakeUpFirst(RemoveWaiter(waiters, t), woken \ {t})
    /\ Dropped(t)
    /\ UNCHANGED <<engine, locked, holder, running, loads, ever_loaded>>

\* The consumer disconnects while the generator is suspended at a yield
CancelMidStream(t) ==
    /\ pc[t] \in {"yielded", "yielded_done"}
    /\ running = NoTask
    /\ pc' = [pc EXCEPT ![t] = "cancelled"]
    /\ UNCHANGED <<engine, lock, running, req, prompt, gen, out, result, loads, ever_loaded>>

\* Variant of Finalize: the abandoned generator is dropped without its
\* `async with` exit running
FinalizeNoRelease(t) ==
    /\ pc[t] = "cancelled"
    /\ running = NoTask
    /\ pc' = [pc EXCEPT ![t] = "closed"]
    /\ running' = t
    /\ UNCHANGED <<engine, lock, req, prompt, gen, out, result, loads, ever_loaded>>

\* The abandoned generator is closed: GeneratorExit at the yield leaves `async with`
Finalize(t) ==
    /\ pc[t] = "cancelled"
    /\ running = NoTask
    /\ Release
    /\ pc' = [pc EXCEPT ![t] = "closed"]
    /\ running' = t
    /\ UNCHANGED <<engine, req, prompt, gen, out, result, loads, ever_loaded>>

\* ---------------------------------------------------------- create_embeddings
\* EmbeddingRequest.input: Union[str, List[str]]
StrInput(x) == [str |-> x]
ListInput(q) == [list |-> q]
TextSet == {"a", "b", "c"}
AllInputs ==
    {StrInput(x) : x \in TextSet}
        \cup {ListInput(q) : q \in UNION {[1..k -> TextSet] : k \in 0..MaxLen}}
\* The inputs of embedding requests that run beside chat requests
SampleInputs == {StrInput("a"), ListInput(<<"a", "b">>)}

\* `[req.input] if isinstance(req.input, str) else req.input`
Normalize(inp) == IF "str" \in DOMAIN inp THEN <<inp.str>> ELSE inp.list

\* Variant of Prefixed: the texts are encoded as given
Unprefixed(inputs) == inputs

\* `[f"search_document: {text}" for text in inputs]`
Prefixed(inputs) == [i \in 1..Len(inputs) |-> "search_document: " \o inputs[i]]

\* state.embed_model.encode(texts).tolist(): one vector per text, in order; the
\* vector of a text is a function of the model instance and the text
Encode(texts) == [i \in 1..Len(texts) |-> [by |-> embed_model, of |-> texts[i]]]

\* `for i, vec in enumerate(vectors): data.append({... "index": i})`
EmbeddingData(vectors) ==
    [j \in 1..Len(vectors) |->
        [object |-> "embedding", embedding |-> vectors[j], index |-> j - 1]]

\* Variant of EmbedArrive: embeddings are not serialized with generation
EmbedArriveUnlocked(t, inp) ==
    /\ NextToArrive(t)
    /\ running = NoTask
    /\ req' = [req EXCEPT ![t] = [kind |-> "embed", model |-> None, stream |-> FALSE,
                                  input |-> inp]]
    /\ pc' = [pc EXCEPT ![t] = "encode"]
    /\ running' = t
    /\ UNCHANGED <<engine, lock, prompt, gen, out, result, loads, ever_loaded>>

\* POST /v1/embeddings arrives: `async with gpu_lock:`
EmbedArrive(t, inp) ==
    /\ NextToArrive(t)
    /\ running = NoTask
    /\ req' = [req EXCEPT ![t] = [kind |-> "embed", model |-> None, stream |-> FALSE,
                                  input |-> inp]]
    /\ IF CanAcquireNow
       THEN AcquireNow(t) /\ pc' = [pc EXCEPT ![t] = "encode"] /\ running' = t
       ELSE Enqueue(t) /\ pc' = [pc EXCEPT ![t] = "wait_embed"] /\ UNCHANGED running
    /\ UNCHANGED <<engine, prompt, gen, out, result, loads, ever_loaded>>

EmbedResume(t) ==
    /\ pc[t] = "wait_embed"
    /\ t \in woken
    /\ running = NoTask
    /\ AcquireWoken(t)
    /\ pc' = [pc EXCEPT ![t] = "encode"]
    /\ running' = t
    /\ UNCHANGED <<engine, req, prompt, gen, out, result, loads, ever_loaded>>

\* Variant of EmbedEncode: the encoder is re-created by the request
EmbedEncodeFreshModel(t) ==
    /\ pc[t] = "encode"
    /\ running = t
    /\ embed_model' = "fresh"
    /\ result' = [result EXCEPT ![t] = [status |-> "ok", model |-> req[t].model,
                                        content |-> "", finish |-> None,
                                        data |-> <<>>]]
    /\ Release
    /\ pc' = [pc EXCEPT ![t] = "done"]
    /\ UNCHANGED <<registry, running, req, prompt, gen, out, loads, ever_loaded>>

\* state.embed_model.encode(...) returns; the response is built and returned
EmbedEncode(t) ==
    /\ pc[t] = "encode"
    /\ running = t
    /\ LET inputs == Normalize(req[t].input)
           prefixed_inputs == Prefixed(inputs)
           vectors == Encode(prefixed_inputs)
       IN result' = [result EXCEPT ![t] = [status |-> "ok", model |-> req[t].model,
                                          content |-> "", finish |-> None,
                                          data |-> EmbeddingData(vectors)]]
    /\ Release
    /\ pc' = [pc EXCEPT ![t] = "done"]
    /\ UNCHANGED <<engine, running, req, prompt, gen, out, loads, ever_loaded>>

\* state.embed_model.encode(...) raises
EmbedFail(t) ==
    /\ pc[t] = "encode"
    /\ running = t
    /\ result' = [result EXCEPT ![t] = Failure(t, "encode_error")]
    /\ Release
    /\ pc' = [pc EXCEPT ![t] = "failed"]
    /\ UNCHANGED <<engine, running, req, prompt, gen, out, loads, ever_loaded>>

\* ---------------------------------------------------------------- list_models
\* `state.chat_model_path or "loading"`
list_models == IF chat_model_path = None THEN Sentinel ELSE chat_model_path

\* The event loop can start a handler only when no handler's code occupies it
LoopFree == running = NoTask

\* GET /v1/models: a coroutine with no await; the answer's data[0].id is kept
\* in result[t].model
ListModels(t) ==
    /\ NextToArrive(t)
    /\ LoopFree
    /\ req' = [req EXCEPT ![t] = [kind |-> "list", model |-> None, stream |-> FALSE,
                                  input |-> None]]
    /\ result' = [result EXCEPT ![t] = [status |-> "ok", model |-> list_models,
                                        content |-> "", finish |-> None,
                                        data |-> <<>>]]
    /\ pc' = [pc EXCEPT ![t] = "done"]
    /\ running' = t
    /\ UNCHANGED <<engine, lock, prompt, gen, out, loads, ever_loaded>>

\* ------------------------------------------------------------ end of a request
Terminal == {"done", "failed", "closed"}

\* The response (or error) has been handed to the server and the request's
\* objects are dropped; the loop is free again
Retire(t) ==
    /\ pc[t] \in Terminal
    /\ running = t
    /\ Dropped(t)
    /\ running' = NoTask
    /\ UNCHANGED <<engine, lock, loads, ever_loaded>>

\* ------------------------------------------------------------- specification
Next ==
    \/ \E t \in Tasks, m \in Models, s \in BOOLEAN : ChatArrive(t, m, s)
    \/ \E t \in Tasks : ChatResume(t)
    \/ \E t \in Tasks : ChatLoad(t)
    \/ \E t \in Tasks : ChatPrompt(t)
    \/ \E t \in Tasks : GenDelta(t)
    \/ \E t \in Tasks : GenEnd(t)
    \/ \E t \in Tasks : GenFail(t)
    \/ \E t \in Tasks : StreamStart(t)
    \/ \E t \in Tasks : StreamResume(t)
    \/ \E t \in Tasks : StreamCall(t)
    \/ \E t \in Tasks : StreamDelta(t)
    \/ \E t \in Tasks : StreamDone(t)
    \/ \E t \in Tasks : StreamFail(t)
    \/ \E t \in Tasks : StreamNext(t)
    \/ \E t \in Tasks : StreamFinish(t)
    \/ \E t \in Tasks : CancelBeforeStart(t)
    \/ \E t \in Tasks : CancelWaiting(t)
    \/ \E t \in Tasks : CancelMidStream(t)
    \/ \E t \in Tasks : Finalize(t)
    \/ \E t \in Tasks, inp \in SampleInputs : EmbedArrive(t, inp)
    \/ \E t \in Tasks : EmbedResume(t)
    \/ \E t \in Tasks : EmbedEncode(t)
    \/ \E t \in Tasks : EmbedFail(t)
    \/ \E t \in Tasks : ListModels(t)
    \/ \E t \in Tasks : Retire(t)

Spec == Init /\ [][Next]_vars

\* Fair scheduling: the event loop runs every ready callback, the server keeps
\* iterating a response body whose consumer is connected, generation is finite,
\* and an abandoned async generator is closed by the loop's finalizer hook.
\* Arrivals and disconnects are up to the clients.
Progress(t) ==
    \/ ChatResume(t) \/ ChatLoad(t) \/ ChatPrompt(t)
    \/ GenDelta(t) \/ GenEnd(t) \/ GenFail(t)
    \/ StreamStart(t) \/ StreamResume(t) \/ StreamCall(t)
    \/ StreamDelta(t) \/ StreamDone(t) \/ StreamFail(t)
    \/ StreamNext(t) \/ StreamFinish(t)
    \/ Finalize(t)
    \/ EmbedResume(t) \/ EmbedEncode(t) \/ EmbedFail(t)
    \/ Retire(t)

FairSpec == Spec /\ \A t \in Tasks : WF_vars(Progress(t))

\* The embedding endpoint alone, over every input up to MaxLen texts
EmbedNext ==
    \/ \E t \in Tasks, inp \in AllInputs : EmbedArrive(t, inp)
    \/ \E t \in Tasks : EmbedEncode(t)
    \/ \E t \in Tasks : EmbedFail(t)
    \/ \E t \in Tasks : Retire(t)

EmbedSpec == Init /\ [][EmbedNext]_vars

\* ------------------------------------------------------------------- claims
\* Positions inside `async with gpu_lock`
SetupSection == {"setup", "prompt", "gen"}
StreamSection == {"stream0", "stream", "yielded", "yielded_done", "cancelled"}
EmbedSection == {"encode"}
InCS(t) == pc[t] \in SetupSection \cup StreamSection \cup EmbedSection
Waiting(t) == pc[t] \in {"wait_setup", "wait_stream", "wait_embed"}

\* C1: mutual exclusion. In every reachable state at most one request is inside
\* a gpu_lock critical section (chat setup / non-streaming generation, stream
\* generator, embedding), and whenever one is, the lock is locked.
C1_MutualExclusion ==
    /\ \A t, u \in Tasks : InCS(t) /\ InCS(u) => t = u
    /\ \A t \in Tasks : InCS(t) => locked

\* C1 witness: a stream generator holds the gate at a yield while an embedding
\* request and a chat request both wait for it.
C1_Witness ==
    \E t, u, v \in Tasks :
        /\ pc[t] = "yielded"
        /\ pc[u] = "wait_embed"
        /\ pc[v] = "wait_setup"

\* A request for a streaming chat completion, from the end of its setup section
\* (model ensured loaded, StreamingResponse returned) to the end of its stream
StreamPending == {"resp", "wait_stream", "stream0", "stream", "yielded", "yielded_done"}

\* C2: stream atomicity under concurrent swap. From the moment the setup of a
\* streaming request for model A has ensured A is loaded until the stream
\* completes or is cancelled, the registry's current identity and model stay A
\* (no load of another model begins), and every chunk delivered for the request
\* was generated by, and names, model A.
C2_StreamAtomicity ==
    \A t \in Tasks :
        /\ pc[t] \in StreamPending =>
              chat_model_path = req[t].model /\ chat_model = req[t].model
        /\ req[t].kind = "chat" /\ req[t].stream =>
              \A i \in 1..Len(out[t]) :
                  out[t][i] # DoneMarker =>
                      out[t][i].by = req[t].model /\ out[t][i].model = req[t].model

\* C3: once a stream generator has acquired the gate it holds it at every
\* position up to the exhaustion of the sequence (terminal marker included) or
\* the close of a cancelled generator, and no step taken while a stream is
\* inside its section changes the registry or calls load (no swap executes).
C3_StreamHoldsGate ==
    /\ [](\A t \in Tasks : pc[t] \in StreamSection => locked /\ holder = t)
    /\ [][\A t \in Tasks : pc[t] \in StreamSection =>
                registry' = registry /\ loads' = loads]_vars

\* C3 witness: a stream has produced two chunks and is suspended at a yield
\* while a chat request for a different model waits for the gate.
C3_Witness ==
    \E t, u \in Tasks :
        /\ pc[t] = "yielded"
        /\ Len(out[t]) = 2
        /\ pc[u] = "wait_setup"
        /\ req[u].model # chat_model_path

\* The request t touches the accelerator in this step: it calls load (or drops
\* the resident model), hands the weights to stream_generate, produces a delta,
\* or runs encode.
AccelStep(t) ==
    \/ pc[t] = "setup" /\ (registry' # registry \/ loads' # loads)
    \/ gen'[t] # gen[t] /\ gen'[t] # None
    \/ Len(out'[t]) > Len(out[t])
    \/ pc[t] = "encode" /\ pc'[t] # "encode"

\* C4: every accelerator-touching step is taken by the request that holds the
\* gate, and the registry fields change only in a step of the gate holder.
C4_AccelOnlyByHolder ==
    [][/\ \A t \in Tasks : AccelStep(t) => locked /\ holder = t /\ running = t
       /\ registry' # registry => locked /\ holder # NoTask /\ running = holder
      ]_vars

\* C4 witness: the gate holder has just swapped model A out for model B while
\* another request waits.
C4_Witness ==
    \E t, u \in Tasks :
        /\ pc[t] = "prompt"
        /\ holder = t
        /\ chat_model_path = "B"
        /\ loads["A"] = 1
        /\ loads["B"] = 1
        /\ Waiting(u)

Completed(t) == pc[t] \in {"done", "failed", "gone"}

\* C5: cancellation releases the gate. After the consumer of a stream has
\* disconnected with the generator suspended at a yield, the generator emits
\* nothing more, and an embedding request that is waiting for the gate at that
\* moment is eventually granted it and completes.
C5_CancelReleasesGate ==
    /\ [][\A s \in Tasks : pc[s] = "cancelled" => out'[s] = out[s]]_vars
    /\ \A e \in Tasks :
          ((pc[e] = "wait_embed" /\ \E s \in Tasks : pc[s] = "cancelled")
              ~> Completed(e))

\* C5 witness: a stream was cancelled after 2 chunks, its terminal marker not
\* yet produced, and an embedding request issued afterwards waits for the gate
\* the abandoned generator still holds.
C5_Witness ==
    \E s, e \in Tasks :
        /\ pc[s] = "cancelled"
        /\ Len(out[s]) = 2
        /\ out[s][2] # DoneMarker
        /\ s < e
        /\ pc[e] = "wait_embed"
        /\ waiters = <<e>>

\* C6: the gate is released on every failure path. A request that has
\* terminated with a failure (load error or missing attribute in chat setup,
\* generation error in a non-streaming completion or mid-stream, encoder error)
\* does not hold the gate: the lock is unlocked and the first waiter, if any,
\* has been woken.
C6_ReleasedOnFailure ==
    \A t \in Tasks :
        pc[t] = "failed" =>
            /\ ~locked
            /\ holder = NoTask
            /\ waiters # <<>> =>
                  Head(waiters) \in woken

\* C6 witness: a stream failed after its first chunk while another request was
\* waiting; the waiter has been woken.
C6_Witness ==
    \E t, u \in Tasks :
        /\ pc[t] = "failed"
        /\ result[t].status = "gen_error"
        /\ Len(out[t]) = 1
        /\ Waiting(u)
        /\ u \in woken

Cleared == <<None, None, None>>

\* C7: when load_chat_model fails, the registry is left unchanged or cleared,
\* and never with a current identity whose model or tokenizer is missing.
C7_FailedLoadLeavesRegistryDefined ==
    [][\A t \in Tasks :
          pc[t] = "setup" /\ pc'[t] = "failed" =>
              /\ registry' = registry \/ registry' = Cleared
              /\ chat_model_path' # None =>
                    chat_model' = chat_model_path' /\ tokenizer' = chat_model_path'
      ]_vars

\* C8: swap correctness. A call of load_chat_model calls load exactly when the
\* requested identity differs from the current identity (one more load for that
\* identity, none for the others); otherwise it changes nothing and the model
\* of the requested identity is the one in place.
C8_LoadExactlyOnChange ==
    [][\A t \in Tasks :
          pc[t] = "setup" /\ pc'[t] # "setup" =>
              IF req[t].model # chat_model_path
              THEN loads' = [loads EXCEPT ![req[t].model] = @ + 1]
              ELSE loads' = loads /\ registry' = registry
                   /\ chat_model = req[t].model
      ]_vars

\* C9: the models-listing answer is the sentinel "loading" when no generation
\* model has ever been loaded, and otherwise the identity of the generation
\* model that is loaded when the query is answered.
C9_ListingReportsLoadedModel ==
    \A t \in Tasks :
        req[t].kind = "list" /\ pc[t] = "done" =>
            result[t].model = IF ever_loaded THEN chat_model ELSE Sentinel

\* C10: a models-listing query can be answered in every state in which some
\* request holds the gate, waits for it, or is in the middle of a generation or
\* an encode.
C10_ListingNeverBlocked ==
    \A t \in Tasks : InCS(t) \/ Waiting(t) => LoopFree

\* C11: eventual acquisition. Under fair scheduling (finite generations, every
\* stream consumed to its end or cancelled) every request that waits in
\* acquire -- chat setup, embedding or stream generator -- is eventually
\* granted the gate (a waiting stream generator may instead be cancelled by
\* its consumer); and there is never a deadlock: whenever requests wait, either
\* the first waiter has been woken or the gate is held by a request that is
\* inside its critical section.
C11_EventualAcquisition ==
    /\ [](waiters # <<>> =>
            \/ ~locked /\ Head(waiters) \in woken
            \/ locked /\ holder \in Tasks /\ InCS(holder))
    /\ \A t \in Tasks :
          /\ (pc[t] = "wait_setup") ~> (pc[t] = "setup" /\ holder = t)
          /\ (pc[t] = "wait_embed") ~> (pc[t] = "encode" /\ holder = t)
          /\ (pc[t] = "wait_stream") ~>
                ((pc[t] = "stream0" /\ holder = t) \/ pc[t] = "gone")

\* C11 witness: two requests are queued behind a stream that holds the gate: a
\* stream generator first, a chat setup second.
C11_Witness ==
    /\ Len(waiters) = 2
    /\ pc[waiters[1]] = "wait_stream"
    /\ pc[waiters[2]] = "wait_setup"
    /\ holder \in Tasks
    /\ pc[holder] = "yielded_done"

\* C12: embedding order preservation. The response of an embedding request has
\* exactly one entry per input text, entry i carries index i and the encoding
\* of "search_document: " followed by input i; a single-string input yields
\* exactly one entry, with index 0.
C12_EmbeddingOrder ==
    \A t \in Tasks :
        req[t].kind = "embed" /\ pc[t] = "done" =>
            LET inp == req[t].input
                single == "str" \in DOMAIN inp
                n == IF single THEN 1 ELSE Len(inp.list)
            IN /\ result[t].status = "ok"
               /\ Len(result[t].data) = n
               /\ \A i \in 0..(n - 1) :
                     /\ result[t].data[i + 1].index = i
                     /\ result[t].data[i + 1].embedding =
                            [by |-> NomicEmbed,
                             of |-> "search_document: " \o
                                      (IF single THEN inp.str ELSE inp.list[i + 1])]

\* C12 witness: the response to the input ["c", "a", "b"] has three entries.
C12_Witness ==
    \E t \in Tasks :
        /\ pc[t] = "done"
        /\ req[t].input = ListInput(<<"c", "a", "b">>)
        /\ Len(result[t].data) = 3
        /\ result[t].data[3].index = 2

\* The texts joined in order, first text first
RECURSIVE Joined(_)
Joined(texts) == IF texts = <<>> THEN "" ELSE Head(texts) \o Joined(Tail(texts))

\* C13: a non-streaming chat completion runs in one uninterrupted critical
\* section: from its acquire to its return it holds the gate, every step is its
\* own, and it never enters a second acquisition; its response content is the
\* in-order concatenation of the deltas the generator produced, all of them
\* produced by the requested model, with finish_reason "stop" and the request's
\* model identity; and it has released the gate when it returns.
C13_NonStreamingCompletion ==
    /\ [][\A t \in Tasks :
            req[t].kind = "chat" /\ ~req[t].stream /\ pc[t] \in SetupSection =>
                /\ locked /\ holder = t /\ running = t
                /\ pc'[t] \in SetupSection \cup {"done", "failed"}
                /\ \A u \in Tasks \ {t} : pc'[u] = pc[u]
                /\ Len(out[t]) > 0 => chat_model = req[t].model
         ]_vars
    /\ [](\A t \in Tasks :
            req[t].kind = "chat" /\ ~req[t].stream /\ pc[t] = "done" =>
                /\ holder # t
                /\ result[t].status = "ok"
                /\ result[t].content = Joined(Texts(out[t]))
                /\ \A i \in 1..Len(out[t]) :
                      out[t][i].by = req[t].model /\ out[t][i].text = DeltaText(i)
                /\ result[t].finish = "stop"
                /\ result[t].model = req[t].model)

\* C13 witness: a non-streaming completion has returned "Hello there" after a
\* swap to its model, and a request that queued meanwhile has been woken.
C13_Witness ==
    \E t, u \in Tasks :
        /\ req[t].kind = "chat" /\ ~req[t].stream
        /\ pc[t] = "done"
        /\ result[t].content = "Hello there"
        /\ loads[req[t].model] = 1
        /\ \E m \in Models \ {req[t].model} : loads[m] = 1
        /\ u \in woken

\* C14: stream protocol. The elements of a stream are delivered by appending,
\* in generation order; every content chunk carries the text of its delta, the
\* response id of the stream's first chunk and finish_reason None; the
\* terminal marker [DONE] occurs only as the last element (so at most once,
\* with no content chunk after it), and a stream that ran to completion ends
\* with it.
C14_StreamProtocol ==
    /\ [][\A t \in Tasks :
            \/ out'[t] = out[t]
            \/ out'[t] = <<>>
            \/ Len(out'[t]) = Len(out[t]) + 1 /\ SubSeq(out'[t], 1, Len(out[t])) = out[t]
         ]_vars
    /\ [](\A t \in Tasks :
            req[t].kind = "chat" /\ req[t].stream =>
                /\ \A i \in 1..Len(out[t]) :
                      IF out[t][i] = DoneMarker
                      THEN i = Len(out[t]) /\ pc[t] \notin {"stream", "yielded"}
                      ELSE /\ out[t][i].text = DeltaText(i)
                           /\ out[t][i].id = out[t][1].id
                           /\ out[t][i].finish = None
                /\ pc[t] \in {"yielded_done", "done"} =>
                      Len(out[t]) >= 1 /\ out[t][Len(out[t])] = DoneMarker)

\* C14 witness: a stream ran to completion with MaxChunks content chunks and
\* the terminal marker.
C14_Witness ==
    \E t \in Tasks :
        /\ req[t].kind = "chat" /\ req[t].stream
        /\ pc[t] = "done"
        /\ Len(out[t]) = MaxChunks + 1
        /\ out[t][MaxChunks].text = DeltaText(MaxChunks)
        /\ out[t][MaxChunks + 1] = DoneMarker

\* C15: registry invariant. In every state in which the gate is free, a current
\* model is present exactly when a current identity is present (and then model
\* and tokenizer are those of that identity), so at most one generation model
\* is resident; and a swap drops the previous model before the new one becomes
\* current.
C15_RegistryInvariant ==
    ~locked =>
        /\ (chat_model \in Models) <=> (chat_model_path \in Models)
        /\ chat_model_path \in Models =>
              chat_model = chat_model_path /\ tokenizer = chat_model_path
        /\ chat_model_path = None => chat_model = None /\ tokenizer = None

\* A step in which request t calls gpu_lock.acquire(): it enters `async with
\* gpu_lock` from outside (on arrival, or at the generator's first __anext__)
AcquireAttempt(t) ==
    /\ pc[t] \in {"idle", "resp"}
    /\ pc'[t] \in {"setup", "wait_setup", "encode", "wait_embed", "stream0", "wait_stream"}

\* C16: no re-entrant acquisition. No request calls acquire while it holds the
\* gate, and no request waits for a gate it holds itself; a streaming chat
\* request has released the gate of its setup section when its generator
\* attempts the second acquisition.
C16_NoReentrantAcquire ==
    /\ [][\A t \in Tasks : AcquireAttempt(t) => holder # t]_vars
    /\ [](\A t \in Tasks : Waiting(t) \/ pc[t] = "resp" => holder # t)

\* C16 witness: the generator of a streaming request, whose setup section held
\* the gate, now waits for the gate, which another request holds.
C16_Witness ==
    \E t \in Tasks :
        /\ pc[t] = "wait_stream"
        /\ prompt[t] \in Models
        /\ holder \in Tasks \ {t}

\* C17: failures are request-scoped. A chat request fails only because its own
\* load or its own generation failed -- never because an earlier request's load
\* failed -- and the models-listing query reports either the sentinel or an
\* identity whose model is resident.
C17_FailuresRequestScoped ==
    \A t \in Tasks :
        /\ req[t].kind = "chat" /\ pc[t] = "failed" =>
              result[t].status \in {"load_error", "gen_error"}
        /\ req[t].kind = "list" /\ pc[t] = "done" /\ result[t].model # Sentinel =>
              chat_model = result[t].model /\ tokenizer = result[t].model

\* C18: every chunk of a stream opened by a chat request for identity A carries
\* model identity A (the identity the non-streaming envelope reports, req.model)
\* and is produced by the model whose tokenizer rendered the request's prompt.
C18_ChunkIdentity ==
    \A t \in Tasks :
        req[t].kind = "chat" /\ req[t].stream =>
            \A i \in 1..Len(out[t]) :
                out[t][i] # DoneMarker =>
                    /\ out[t][i].model = req[t].model
                    /\ out[t][i].by = prompt[t]

\* Request t is an embedding request, a models-listing query, or a stream
\* generator (from the returned StreamingResponse to the generator's end)
NonSetup(t) ==
    \/ req[t].kind \in {"embed", "list"}
    \/ req'[t].kind \in {"embed", "list"}
    \/ pc[t] \in {"resp", "wait_stream"} \cup StreamSection

\* Request t takes the step
Moves(t) == pc'[t] # pc[t] \/ out'[t] # out[t]

\* C19: frame. A step of an embedding request, of a models-listing query or of
\* a stream generator leaves every attribute of the engine state unchanged; no
\* step changes the embedding model reference; and the registry changes only
\* in a step of a chat completion's setup section.
C19_Frame ==
    [][/\ \A t \in Tasks : NonSetup(t) /\ Moves(t) => engine' = engine
       /\ embed_model' = embed_model /\ embed_model = NomicEmbed
       /\ registry' # registry =>
             \E t \in Tasks : req[t].kind = "chat" /\ pc[t] = "setup" /\ running = t
      ]_vars

\* C19 witness: after a swap from A to B an embedding request has been
\* answered while the stream of the request for B is pending.
C19_Witness ==
    \E e, s \in Tasks :
        /\ req[e].kind = "embed" /\ pc[e] = "done"
        /\ Len(result[e].data) = 2
        /\ pc[s] = "resp"
        /\ chat_model_path = "B"
        /\ loads["A"] = 1

====
